---- MODULE Spec2Model ----
(***************************************************************************)
(* Storefront backend: the request-scoped DataLoader registry              *)
(* (src/loaders/index.ts, built per request by the GraphQL context         *)
(* function) and the product list filter built by the REST route           *)
(* (src/routes/products.ts) and by the GraphQL products field              *)
(* (src/schema/builder.ts), the layers of the express app (src/index.ts)   *)
(* and the resolvers of the derived variant fields (src/schema/builder.ts),*)
(* the categories query, the admin, theme, review and cart mutations       *)
(* (src/schema/builder.ts), whose resolve calls interleave at their awaits,*)
(* and the shutdown of the process on SIGTERM / SIGINT (src/index.ts).     *)
(*                                                                         *)
(* Every loader is a `new DataLoader(batchFn)` with default options: the   *)
(* promise cache is on, a load() joins the loader's current batch until    *)
(* that batch is dispatched at the end of the tick, a failed batch clears  *)
(* its keys from the cache, and a batch without keys issues no fetch.      *)
(***************************************************************************)
EXTENDS Integers, Sequences, FiniteSets, TLC

\* ------------------------------------------------------------------ bounds
MaxLoads == 4      \* load() calls issued on the one loader of SpecLoader
MaxRelLoads == 3   \* load() calls issued on the relation loaders of SpecRelations
MaxReqLoads == 3   \* load() calls issued by the two requests of SpecRequests
MaxWrites == 1     \* storage writes by other clients
MaxAllLoads == 3    \* load() calls issued on the loaders of SpecAllLoaders
MaxAdminCalls == 2  \* mutation calls made in SpecAdmin
MaxReviewCalls == 2 \* createReview calls made in SpecReviews
MaxCartCalls == 2   \* cart mutation calls made in SpecCart
MaxSignals == 3     \* signals delivered to the process in SpecShutdown
MaxConns == 3       \* HTTP connections open at once in SpecShutdown
MaxVariants == 3   \* variants of the product a GraphQL execution resolves

\* ---------------------------------------------------------------- universe
Req == {1, 2}                     \* inbound GraphQL requests
RegIds == 1..Cardinality(Req)     \* identities of the registries allocated
Keys == {10, 11, 12}              \* product ids asked for
WrittenKeys == {10, 11}           \* product ids other clients write
Causes == {"ECONNREFUSED", "ETIMEDOUT"}
Users == {"anonymous", "user"}

LoaderNames ==
  {"productLoader", "productVariantsLoader", "productReviewsLoader", "userAddressesLoader"}

\* product id -> version of the stored row, 0 when no row has that id
InitProducts == (10 :> 1) @@ (11 :> 0) @@ (12 :> 1)

\* rows of ProductVariant: product 10 has two, 11 none, 12 one
VariantRows ==
  { [id |-> 1, productId |-> 10, sortOrder |-> 1],
    [id |-> 2, productId |-> 10, sortOrder |-> 0],
    [id |-> 3, productId |-> 12, sortOrder |-> 0] }

\* rows of Review
ReviewRows ==
  { [id |-> 1, productId |-> 10, isPublished |-> TRUE,  createdAt |-> 1],
    [id |-> 2, productId |-> 10, isPublished |-> FALSE, createdAt |-> 2],
    [id |-> 3, productId |-> 11, isPublished |-> TRUE,  createdAt |-> 2],
    [id |-> 4, productId |-> 11, isPublished |-> TRUE,  createdAt |-> 3],
    [id |-> 5, productId |-> 10, isPublished |-> TRUE,  createdAt |-> 4] }

\* rows of Address: user 10 has two, user 11 one, user 12 none
AddressRows ==
  { [id |-> 1, userId |-> 10, isDefault |-> FALSE],
    [id |-> 2, userId |-> 11, isDefault |-> TRUE],
    [id |-> 3, userId |-> 10, isDefault |-> TRUE] }

VARIABLES
  products,      \* storage: product id -> version (0: absent)
  writes,        \* number of storage writes so far (a logical clock)
  ctx,           \* request -> its GraphQL context
  nextRegistry,  \* identity the next allocated registry gets
  batches,       \* registry -> loader -> the loader's batches, oldest first
  cache,         \* registry -> loader -> key -> batch holding its promise (0: none)
  calls,         \* registry -> loader name -> the load() calls made, oldest first
  budget,        \* load() or mutation calls the run may still issue
  inbox,         \* the product list request waiting for its handler
  listing,       \* the product list request handled last, with its response
  request,       \* the HTTP request the express app was sent
  response,      \* the handler of the app that took the request, and its answer
  exec,          \* the GraphQL execution started for the request
  queries,       \* the storage queries the execution's resolvers issued, in order
  store,         \* storage tables the mutations write: themes, catalog entities, reviews, carts
  flights,       \* the mutation resolver calls made, each with its position
  proc           \* the server process: signals, HTTP server, database client, exit

\* the state of the express app and of the GraphQL execution it hosts
serverVars == <<request, response, exec, queries>>

\* the state the GraphQL mutations work on
shopVars == <<store, flights>>

vars == <<products, writes, ctx, nextRegistry, batches, cache, calls, budget, inbox, listing,
          serverVars, shopVars, proc>>

\* ------------------------------------------------------------ small helpers
ToSet(s) == { s[i] : i \in DOMAIN s }

NoDup(s) == \A i, j \in DOMAIN s : i # j => s[i] # s[j]

\* every listing of the finite set S without repetition
Orderings(S) ==
  { s \in [1..Cardinality(S) -> S] : \A i, j \in DOMAIN s : i # j => s[i] # s[j] }

IndexOf(s, x) == CHOOSE i \in DOMAIN s : s[i] = x

\* ------------------------------------------------------------------- values
Unset == [t |-> "unset"]
NullV == [t |-> "null"]
RowV(r) == [t |-> "row", row |-> r]
ListV(s) == [t |-> "list", items |-> s]

NoContext == [built |-> FALSE, loaders |-> 0, builtAt |-> 0]

\* ------------------------------------------------------------------ storage
ProductRow(db, k) == [id |-> k, ver |-> db[k]]

\* prisma.product.findMany({ where: { id: { in: ids } } }): the matching rows,
\* in an order the query does not fix
FindProducts(db, ids) ==
  Orderings({ ProductRow(db, k) : k \in { j \in ToSet(ids) : db[j] > 0 } })

\* prisma.productVariant.findMany({ where: { productId: { in } }, orderBy: { sortOrder: "asc" } })
FindVariants(ids) ==
  { s \in Orderings({ v \in VariantRows : v.productId \in ToSet(ids) }) :
      \A i, j \in DOMAIN s : i < j => s[i].sortOrder <= s[j].sortOrder }

\* prisma.review.findMany({ where: { productId: { in }, isPublished: true }, orderBy: { createdAt: "desc" } })
FindReviews_unfiltered(ids) ==
  { s \in Orderings({ v \in ReviewRows : v.productId \in ToSet(ids) }) :
      \A i, j \in DOMAIN s : i < j => s[i].createdAt >= s[j].createdAt }

FindReviews(ids) ==
  { s \in Orderings({ v \in ReviewRows : v.productId \in ToSet(ids) /\ v.isPublished }) :
      \A i, j \in DOMAIN s : i < j => s[i].createdAt >= s[j].createdAt }

\* prisma.address.findMany({ where: { userId: { in } }, orderBy: { isDefault: "desc" } })
FindAddresses(ids) ==
  { s \in Orderings({ v \in AddressRows : v.userId \in ToSet(ids) }) :
      \A i, j \in DOMAIN s : i < j => (s[j].isDefault => s[i].isDefault) }

\* ------------------------------------------------------- batch fetch functions
\* productMap.set(product.id, product) for each row, then
\* ids.map((id) => productMap.get(id) || null)
SingleBatchFn_positional(ids, rows) ==
  [ i \in DOMAIN ids |-> IF i \in DOMAIN rows THEN RowV(rows[i]) ELSE NullV ]

SingleBatchFn(ids, rows) ==
  [ i \in DOMAIN ids |->
      LET hits == { n \in DOMAIN rows : rows[n].id = ids[i] } IN
      IF hits = {} THEN NullV
      ELSE RowV(rows[CHOOSE n \in hits : \A m \in hits : m <= n]) ]

\* group the rows by productId in query order, then
\* productIds.map((id) => byProduct.get(id) || [])
GroupBatchFn_nullWhenEmpty(ids, rows) ==
  [ i \in DOMAIN ids |->
      LET own == SelectSeq(rows, LAMBDA r : r.productId = ids[i])
      IN IF own = <<>> THEN NullV ELSE ListV(own) ]

GroupBatchFn(ids, rows) ==
  [ i \in DOMAIN ids |-> ListV(SelectSeq(rows, LAMBDA r : r.productId = ids[i])) ]

\* group the rows by userId in query order, then
\* userIds.map((id) => addressesByUser.get(id) || [])
AddressBatchFn(ids, rows) ==
  [ i \in DOMAIN ids |-> ListV(SelectSeq(rows, LAMBDA r : r.userId = ids[i])) ]

IsSingle(l) == l = "productLoader"

\* the row lists the loader's storage query can return for `ids`
QueryRows(l, db, ids) ==
  CASE l = "productLoader" -> FindProducts(db, ids)
    [] l = "productVariantsLoader" -> FindVariants(ids)
    [] l = "productReviewsLoader" -> FindReviews(ids)
    [] l = "userAddressesLoader" -> FindAddresses(ids)

\* a batch function that answers only for the keys it found rows for
BatchFn_foundOnly(l, ids, rows) ==
  [ i \in DOMAIN rows |-> IF IsSingle(l) THEN RowV(rows[i]) ELSE ListV(<<rows[i]>>) ]

BatchFn(l, ids, rows) ==
  CASE IsSingle(l) -> SingleBatchFn(ids, rows)
    [] l = "userAddressesLoader" -> AddressBatchFn(ids, rows)
    [] OTHER -> GroupBatchFn(ids, rows)

\* ------------------------------------------------------------ product lists
\* an optional request field or filter entry: left out, or given with a value
Absent == [set |-> FALSE]
Is(v) == [set |-> TRUE, v |-> v]
JNull == [set |-> TRUE, null |-> TRUE]       \* an explicit GraphQL null
IsNull(x) == x = JNull
\* a string that is given, not null and not empty
Truthy(x) == x.set /\ ~IsNull(x) /\ x.v # ""
\* the same for a text the model holds as a list of characters
TruthyText(x) == x.set /\ ~IsNull(x) /\ x.v # <<>>

\* a JavaScript number: an integer or NaN
Num(n) == [nan |-> FALSE, n |-> n]
NaN == [nan |-> TRUE, n |-> 0]

Statuses == {"DRAFT", "PUBLISHED", "ARCHIVED"}
SortKeys == {"newest", "oldest", "price-asc", "price-desc", "name-asc", "name-desc"}

\* rows of Product as the list queries see them
Catalog ==
  { [id |-> 10, status |-> "PUBLISHED", isFeatured |-> TRUE, cats |-> {"shoes"},
     cols |-> {"sale"}, title |-> <<"R", "e", "d">>, name |-> 3, createdAt |-> 1,
     basePrice |-> 30],
    [id |-> 12, status |-> "PUBLISHED", isFeatured |-> FALSE, cats |-> {"hats"},
     cols |-> {}, title |-> <<"B", "l", "u", "e">>, name |-> 1, createdAt |-> 2,
     basePrice |-> 10],
    [id |-> 13, status |-> "DRAFT", isFeatured |-> FALSE, cats |-> {"shoes"},
     cols |-> {"sale"}, title |-> <<"R", "e", "x">>, name |-> 4, createdAt |-> 3,
     basePrice |-> 20],
    [id |-> 14, status |-> "ARCHIVED", isFeatured |-> TRUE, cats |-> {},
     cols |-> {}, title |-> <<"O", "l", "d">>, name |-> 2, createdAt |-> 4,
     basePrice |-> 40] }

Lower(ch) ==
  CASE ch = "R" -> "r" [] ch = "B" -> "b" [] ch = "O" -> "o" [] ch = "E" -> "e"
    [] OTHER -> ch

\* { contains: s, mode: "insensitive" }
Contains(t, s) ==
  \E i \in 0..(Len(t) - Len(s)) : \A j \in 1..Len(s) : Lower(t[i + j]) = Lower(s[j])

\* parseInt on the query strings the model sends
ParseInt(str) ==
  CASE str = "1" -> Num(1) [] str = "2" -> Num(2) [] str = "0" -> Num(0)
    [] str = "-1" -> Num(0 - 1) [] OTHER -> NaN

Minus(a, b) == IF a.nan \/ b.nan THEN NaN ELSE Num(a.n - b.n)
Times(a, b) == IF a.nan \/ b.nan THEN NaN ELSE Num(a.n * b.n)

\* productQuerySchema.parse(req.query)
productQuerySchema(q) ==
  [ ok |-> /\ (q.status.set => q.status.v \in Statuses)
           /\ (q.sortBy.set => q.sortBy.v \in SortKeys),
    page |-> IF Truthy(q.page) THEN ParseInt(q.page.v) ELSE Num(1),
    limit |-> IF Truthy(q.limit) THEN ParseInt(q.limit.v) ELSE Num(20),
    status |-> q.status,
    featured |-> q.featured.set /\ q.featured.v = "true",
    category |-> q.category,
    collection |-> q.collection,
    sortBy |-> q.sortBy ]

\* GET /api/products: the where clause
RestWhere(p) ==
  [ status |-> IF Truthy(p.status) THEN Is(p.status.v) ELSE Absent,
    isFeatured |-> Is(p.featured),
    categories |-> IF Truthy(p.category) THEN Is(p.category.v) ELSE Absent,
    collections |-> IF Truthy(p.collection) THEN Is(p.collection.v) ELSE Absent,
    title |-> Absent ]

\* GET /api/products: the orderBy clause
RestOrderBy_default(p) == <<"createdAt", "desc">>

RestOrderBy(p) ==
  IF ~Truthy(p.sortBy) THEN <<"createdAt", "desc">>
  ELSE CASE p.sortBy.v = "newest" -> <<"createdAt", "desc">>
         [] p.sortBy.v = "oldest" -> <<"createdAt", "asc">>
         [] p.sortBy.v = "price-asc" -> <<"basePrice", "asc">>
         [] p.sortBy.v = "price-desc" -> <<"basePrice", "desc">>
         [] p.sortBy.v = "name-asc" -> <<"name", "asc">>
         [] p.sortBy.v = "name-desc" -> <<"name", "desc">>
         [] OTHER -> <<"createdAt", "desc">>

\* Query.products: the where clause
GraphqlWhere(args) ==
  [ status |-> IF Truthy(args.status) THEN Is(args.status.v) ELSE Is("PUBLISHED"),
    isFeatured |-> IF args.featured # Absent THEN args.featured ELSE Absent,
    categories |-> IF Truthy(args.categorySlug) THEN Is(args.categorySlug.v) ELSE Absent,
    collections |-> IF Truthy(args.collectionSlug) THEN Is(args.collectionSlug.v) ELSE Absent,
    title |-> IF TruthyText(args.search) THEN Is(args.search.v) ELSE Absent ]

\* Query.products: the orderBy clause
GraphqlOrderBy == <<"createdAt", "desc">>

\* a row satisfies a where clause
Matches(row, w) ==
  /\ w.status.set => row.status = w.status.v
  /\ w.isFeatured.set => row.isFeatured = w.isFeatured.v
  /\ w.categories.set => w.categories.v \in row.cats
  /\ w.collections.set => w.collections.v \in row.cols
  /\ w.title.set => Contains(row.title, w.title.v)

FieldOf(row, f) ==
  CASE f = "createdAt" -> row.createdAt [] f = "basePrice" -> row.basePrice
    [] f = "name" -> row.name

\* the rows of S listed in the order of orderBy
Sorted(S, orderBy) ==
  CHOOSE s \in Orderings(S) :
    \A i, j \in DOMAIN s :
      i < j => IF orderBy[2] = "asc"
               THEN FieldOf(s[i], orderBy[1]) <= FieldOf(s[j], orderBy[1])
               ELSE FieldOf(s[i], orderBy[1]) >= FieldOf(s[j], orderBy[1])

Min(a, b) == IF a < b THEN a ELSE b

\* prisma.product.findMany({ where, skip, take, orderBy }): the client rejects a
\* null on the boolean column, a skip that is NaN or negative and a take that
\* is NaN; a negative take is not sent by the model
FindManyProducts(w, skip, take, orderBy) ==
  IF IsNull(w.isFeatured) \/ skip.nan \/ take.nan \/ skip.n < 0 \/ take.n < 0
  THEN [ok |-> FALSE, rows |-> <<>>]
  ELSE LET all == Sorted({ row \in Catalog : Matches(row, w) }, orderBy)
           from == Min(skip.n, Len(all)) + 1
           to == Min(skip.n + take.n, Len(all))
       IN [ok |-> TRUE, rows |-> SubSeq(all, from, to)]

NoRequest == [endpoint |-> "none"]
NoListing == [endpoint |-> "none"]

\* --------------------------------------------------------------- categories
\* rows of Category: c1 and c2 are root categories, c3 and c4 children of c1
CategoryRows ==
  { [id |-> "c1", parentId |-> JNull, isVisible |-> TRUE, sortOrder |-> 2],
    [id |-> "c2", parentId |-> JNull, isVisible |-> FALSE, sortOrder |-> 1],
    [id |-> "c3", parentId |-> Is("c1"), isVisible |-> TRUE, sortOrder |-> 4],
    [id |-> "c4", parentId |-> Is("c1"), isVisible |-> TRUE, sortOrder |-> 3] }

\* Query.categories: the where clause; an argument the query leaves out is
\* undefined, one it gives as null is null
CategoryWhere_truthy(args) ==
  [ parentId |-> IF args.parentId # Absent /\ ~IsNull(args.parentId)
                 THEN args.parentId ELSE Absent,
    isVisible |-> IF args.isVisible # Absent THEN args.isVisible ELSE Absent ]

CategoryWhere(args) ==
  [ parentId |-> IF args.parentId # Absent THEN args.parentId ELSE Absent,
    isVisible |-> IF args.isVisible # Absent THEN args.isVisible ELSE Absent ]

\* a category row satisfies a where clause: { parentId: null } selects the
\* rows whose parentId is NULL
CategoryMatches(row, w) ==
  /\ w.parentId.set => row.parentId = w.parentId
  /\ w.isVisible.set => row.isVisible = w.isVisible.v

\* the rows of S by ascending sortOrder
BySortOrder(S) ==
  CHOOSE s \in Orderings(S) : \A i, j \in DOMAIN s : i < j => s[i].sortOrder <= s[j].sortOrder

\* prisma.category.findMany({ where, take, skip, orderBy: { sortOrder: "asc" } }):
\* the client rejects a null on the boolean column
FindManyCategories(w, skip, take) ==
  IF IsNull(w.isVisible)
  THEN [ok |-> FALSE, rows |-> <<>>]
  ELSE LET all == BySortOrder({ row \in CategoryRows : CategoryMatches(row, w) })
           from == Min(skip, Len(all)) + 1
           to == Min(skip + take, Len(all))
       IN [ok |-> TRUE, rows |-> SubSeq(all, from, to)]

\* ---------------------------------------------------------------- mutations
\* ctx.user of a request without a valid token; an authenticated caller is
\* its userId
NoUser == 0

\* if (!ctx.user) throw new Error("Unauthorized")
Authorized_anyone(u) == TRUE

Authorized(u) == u # NoUser

Entities == {"product", "category", "collection", "variant"}

NoRow == [id |-> 0]

\* storage as the mutations find it: theme 1 is the active theme, every
\* catalog table holds row 1, user 1 has a cart with one item, no reviews.
\* Storage enforces the unique keys the code looks rows up by with findUnique:
\* the primary keys, Cart.userId and CartItem (cartId, productId, variantId).
InitDb ==
  [ theme |-> { [id |-> 1, isActive |-> TRUE, ver |-> 1],
                [id |-> 2, isActive |-> FALSE, ver |-> 1] },
    themeSeq |-> 2,
    entity |-> [e \in Entities |-> { [id |-> 1, ver |-> 1] }],
    entitySeq |-> [e \in Entities |-> 1],
    review |-> {},
    reviewSeq |-> 0,
    cart |-> { [id |-> 1, userId |-> 1, sessionId |-> ""] },
    cartSeq |-> 1,
    item |-> { [id |-> 1, cartId |-> 1, productId |-> 10, variantId |-> Is(1),
                quantity |-> 1] },
    itemSeq |-> 1 ]

\* a resolver call: its arguments, the await it stands at, what its reads
\* returned, the writes it made and its outcome
Flight(op, u) ==
  [ op |-> op, user |-> u, entity |-> "", id |-> 0, n |-> 0, variant |-> Absent,
    session |-> Absent, product |-> 0, pc |-> "begin", out |-> "none", wrote |-> 0, seen |-> NoRow,
    cart |-> 0, hot |-> FALSE, before |-> {} ]

Threw(f, e) == [f EXCEPT !.pc = "done", !.out = e]

Returned(f) == [f EXCEPT !.pc = "done", !.out = "ok", !.wrote = @ + 1]

\* the row of table T with primary key id, NoRow when there is none
FindUnique(T, id) == IF \E r \in T : r.id = id THEN CHOOSE r \in T : r.id = id ELSE NoRow

\* prisma.theme.findFirst({ where: { isActive: true } }) ranges over these
ActiveThemes(d) == { t.id : t \in { r \in d.theme : r.isActive } }

\* ---------------------------------------------------------------- DataLoader
NewBatch == [keys |-> <<>>, st |-> "open", snap |-> InitProducts, at |-> 0,
             vals |-> <<>>, qerr |-> "none", cause |-> "none"]

Settled(b) == b.st \in {"empty", "ok", "failed"}

\* the batch function was invoked for this batch
Fetched(b) == b.st \in {"inflight", "ok", "failed"}

\* the batches of loader object l of registry g that reached the batch function
FetchLog(g, l) == SelectSeq(batches[g][l], Fetched)

\* the fetches of a loader that were handed key k
FetchesOf(bs, k) == { i \in DOMAIN bs : Fetched(bs[i]) /\ k \in ToSet(bs[i].keys) }

\* A call's promise settles once the batch that carries it has been dispatched
\* and has settled, and the promise of its key has settled; it takes the
\* outcome of the key's promise.
SettleCall(bs, c) ==
  IF c.st = "wait" /\ Settled(bs[c.carrier]) /\ Settled(bs[c.src])
  THEN IF bs[c.src].st = "ok"
       THEN [c EXCEPT !.st = "ok", !.val = bs[c.src].vals[IndexOf(bs[c.src].keys, c.key)]]
       ELSE [c EXCEPT !.st = "failed", !.cause = bs[c.src].cause]
  ELSE c

Resettle(bs, cs) == [ n \in DOMAIN cs |-> SettleCall(bs, cs[n]) ]

\* createLoaders(): a registry of freshly constructed loaders
createLoaders_shared == IF nextRegistry > 1 THEN nextRegistry - 1 ELSE nextRegistry

createLoaders == nextRegistry

\* the loader object a registry holds under name l: each name gets the
\* loader its own factory made
LoaderOf_oneForAll(l) == IF IsSingle(l) THEN l ELSE "productVariantsLoader"

LoaderOf(l) == l

\* the loader's promise cache holds key k (no cacheMap / cache: false option)
CacheHit_never(g, l, k) == FALSE

CacheHit_settledOnly(g, l, k) ==
  cache[g][l][k] # 0 /\ batches[g][l][cache[g][l][k]].st \in {"open", "ok"}

CacheHit(g, l, k) == cache[g][l][k] # 0

\* the loader's current batch still takes keys (no batch: false option)
Joinable_never(bs) == FALSE

Joinable(bs) == bs # <<>> /\ bs[Len(bs)].st = "open"

\* dispatching batch b invokes the batch function: a batch that only carries
\* cache hits has no keys and resolves them without a fetch
IssuesFetch_always(b) == TRUE

IssuesFetch(b) == b.keys # <<>>

\* the cache of a loader once batch b has failed: its keys are cleared
Cleared(g, l, b) == [k \in Keys |-> IF k \in ToSet(b.keys) THEN 0 ELSE cache[g][l][k]]

\* the cache of a loader once batch b has resolved: its promises stay
CacheAfterResolve_dropped(g, l, b) == Cleared(g, l, b)

CacheAfterResolve(g, l, b) == cache[g][l]

\* what the async batch function does when its storage query rejects with e:
\* nothing catches it, the returned promise rejects with e
OnQueryError_swallowed(l, ids, e) ==
  [rejected |-> FALSE, cause |-> "none", values |-> BatchFn(l, ids, <<>>)]

OnQueryError(l, ids, e) == [rejected |-> TRUE, cause |-> e, values |-> <<>>]

\* the calls made under every name that resolves to loader object l
ResettleAll(g, l, bs) ==
  [calls EXCEPT ![g] = [nm \in LoaderNames |->
                          IF LoaderOf(nm) = l THEN Resettle(bs, @[nm]) ELSE @[nm]]]

\* ------------------------------------------------------------- express app
\* a URL path is the list of its segments: /api/products is <<"api", "products">>
IsPrefix(a, b) == Len(a) <= Len(b) /\ SubSeq(b, 1, Len(a)) = a

\* the layers of the app from the first route on, in registration order
AppStack ==
  << [kind |-> "get", path |-> <<"health">>, handler |-> "health"],
     [kind |-> "use", path |-> <<"graphql">>, handler |-> "yoga"],
     [kind |-> "use", path |-> <<>>, handler |-> "notFound"],
     [kind |-> "error", path |-> <<>>, handler |-> "errorHandler"] >>

\* app.get(path) takes a GET of exactly that path, app.use(path) every request
\* below that path, an error handler no request that raised no error
LayerMatches(layer, req) ==
  CASE layer.kind = "get" -> req.method = "GET" /\ req.path = layer.path
    [] layer.kind = "use" -> IsPrefix(layer.path, req.path)
    [] OTHER -> FALSE

\* the handler of the first layer that takes the request
AppHandler(req) ==
  LET hits == { n \in DOMAIN AppStack : LayerMatches(AppStack[n], req) }
  IN IF hits = {} THEN "finalhandler"
     ELSE AppStack[CHOOSE n \in hits : \A m \in hits : n <= m].handler

\* the routes of the three REST routers, in registration order
ProductsRouter ==
  << [path |-> <<>>, handler |-> "products.list"],
     [path |-> <<":slug">>, handler |-> "products.bySlug"],
     [path |-> <<"search", "index">>, handler |-> "products.searchIndex"] >>

CategoriesRouter ==
  << [path |-> <<>>, handler |-> "categories.list"],
     [path |-> <<":slug">>, handler |-> "categories.bySlug"] >>

CollectionsRouter ==
  << [path |-> <<>>, handler |-> "collections.list"],
     [path |-> <<":slug">>, handler |-> "collections.bySlug"] >>

\* router.get(pattern): the path has the pattern's segments, a :name segment
\* standing for any one segment
RouteMatches(pattern, path) ==
  /\ Len(pattern) = Len(path)
  /\ \A i \in DOMAIN pattern : pattern[i] = ":slug" \/ pattern[i] = path[i]

\* the handler of the first route of the router that takes a GET of the path
RouterHandler(router, path) ==
  LET hits == { n \in DOMAIN router : RouteMatches(router[n].path, path) }
  IN IF hits = {} THEN "next"
     ELSE router[CHOOSE n \in hits : \A m \in hits : n <= m].handler

NoHttpRequest == [method |-> "none"]
NoResponse == [handler |-> "none"]
NoExecution == [st |-> "idle"]

\* ------------------------------------------------------ variant field resolvers
DerivedFields == {"size", "color", "colorHex"}

\* rows of VariantOptionSelection with option, variantType and swatchImage
\* included; an option without a swatch image has swatch ""
OptionSelections ==
  { [variantId |-> 1, type |-> "Size", label |-> "M", swatch |-> ""],
    [variantId |-> 1, type |-> "Color", label |-> "Red", swatch |-> "red.png"],
    [variantId |-> 2, type |-> "size", label |-> "L", swatch |-> ""],
    [variantId |-> 3, type |-> "COLOR", label |-> "Blue", swatch |-> ""],
    [variantId |-> 3, type |-> "Material", label |-> "Wool", swatch |-> ""] }

\* String.prototype.toLowerCase on the type names stored
ToLowerCase(str) ==
  CASE str \in {"Size", "size"} -> "size"
    [] str \in {"Color", "COLOR"} -> "color"
    [] str = "Material" -> "material"
    [] OTHER -> str

\* prisma.variantOptionSelection.findMany({ where: { variantId } }): the
\* variant's selections, in an order the query does not fix
FindSelections(v) == Orderings({ r \in OptionSelections : r.variantId = v })

StrV(x) == [t |-> "str", v |-> x]

\* the resolver of a derived field, once its query has answered with rows:
\* selections.find(...) takes the first selection of the wanted type, and
\* `|| null` turns a missing or empty text into null
FieldValue(f, rows) ==
  LET wanted == IF f = "size" THEN "size" ELSE "color"
      hits == { n \in DOMAIN rows : ToLowerCase(rows[n].type) = wanted }
  IN IF hits = {} THEN NullV
     ELSE LET r == rows[CHOOSE n \in hits : \A m \in hits : n <= m]
              text == IF f = "colorHex" THEN r.swatch ELSE r.label
          IN IF text = "" THEN NullV ELSE StrV(text)

\* the resolver calls of an execution over the variants vs with selection
\* fs, in the order the executor makes them: variant by variant, and for each
\* variant field by field; every call issues its own findMany
ResolverCalls(vs, fs) ==
  [ n \in 1..(Len(vs) * Len(fs)) |->
      [variantId |-> vs[((n - 1) \div Len(fs)) + 1],
       field |-> fs[((n - 1) % Len(fs)) + 1],
       st |-> "sent", value |-> Unset] ]

\* ------------------------------------------------------------------- process
\* the process after app.listen: serving, no signal received
Running ==
  [signals |-> <<>>, server |-> "listening", conns |-> 0, listeners |-> 0,
   disconnecting |-> 0, timers |-> 0, client |-> "connected",
   failed |-> FALSE, fired |-> FALSE, exited |-> FALSE, code |-> 0]

\* ---------------------------------------------------------------------- Init
Init0 ==
  /\ products = InitProducts
  /\ writes = 0
  /\ ctx = [r \in Req |-> NoContext]
  /\ nextRegistry = 1
  /\ batches = [g \in RegIds |-> [l \in LoaderNames |-> <<>>]]
  /\ cache = [g \in RegIds |-> [l \in LoaderNames |-> [k \in Keys |-> 0]]]
  /\ calls = [g \in RegIds |-> [l \in LoaderNames |-> <<>>]]
  /\ listing = NoListing
  /\ response = NoResponse
  /\ exec = NoExecution
  /\ queries = <<>>
  /\ store = InitDb
  /\ flights = <<>>
  /\ proc = Running

\* ------------------------------------------------------------------- actions
\* yoga's context function, run once for each inbound request
BuildContext(r) ==
  /\ ~ctx[r].built
  /\ ctx' = [ctx EXCEPT ![r] = [built |-> TRUE,
                                 loaders |-> createLoaders, builtAt |-> writes]]
  /\ nextRegistry' = nextRegistry + 1
  /\ UNCHANGED <<products, writes, batches, cache, calls, budget, inbox, listing, serverVars, shopVars, proc>>

\* a resolver of request r calls ctx.loaders.<nm>.load(k)
Load(r, nm, k) ==
  /\ ctx[r].built
  /\ budget > 0
  /\ budget' = budget - 1
  /\ LET g == ctx[r].loaders
         l == LoaderOf(nm)
         bs == batches[g][l]
         bs1 == IF Joinable(bs) THEN bs ELSE Append(bs, NewBatch)
         n == Len(bs1)
         hit == CacheHit(g, l, k)
         src == IF hit THEN cache[g][l][k] ELSE n
         bs2 == IF hit THEN bs1 ELSE [bs1 EXCEPT ![n].keys = Append(@, k)]
         c == [key |-> k, req |-> r, src |-> src, carrier |-> n, hit |-> hit,
               cached |-> \E i \in DOMAIN bs : bs[i].st = "ok" /\ k \in ToSet(bs[i].keys),
               inflight |-> \E i \in DOMAIN bs : bs[i].st = "inflight" /\ k \in ToSet(bs[i].keys),
               flushed |-> Cardinality({ i \in DOMAIN bs : bs[i].st # "open" }),
               seen |-> Cardinality(FetchesOf(bs, k)),
               st |-> "wait", val |-> Unset, cause |-> "none"]
     IN /\ batches' = [batches EXCEPT ![g][l] = bs2]
        /\ cache' = [cache EXCEPT ![g][l][k] = src]
        /\ calls' = [calls EXCEPT ![g][nm] = Append(@, c)]
  /\ UNCHANGED <<products, writes, ctx, nextRegistry, inbox, listing, serverVars, shopVars, proc>>

\* end of the tick: batch i of the loader is dispatched; a batch without keys
\* only releases the cached promises it carries
Dispatch(g, l, i) ==
  /\ i \in DOMAIN batches[g][l]
  /\ batches[g][l][i].st = "open"
  /\ LET bs == batches[g][l]
         bs1 == IF IssuesFetch(bs[i])
                THEN [bs EXCEPT ![i].st = "inflight", ![i].snap = products,
                                ![i].at = writes]
                ELSE [bs EXCEPT ![i].st = "empty"]
     IN /\ batches' = [batches EXCEPT ![g][l] = bs1]
        /\ calls' = ResettleAll(g, l, bs1)
  /\ UNCHANGED <<products, writes, ctx, nextRegistry, cache, budget, inbox, listing, serverVars, shopVars, proc>>

\* the storage query of batch i answers
Complete(g, l, i) ==
  /\ i \in DOMAIN batches[g][l]
  /\ batches[g][l][i].st = "inflight"
  /\ \E rows \in QueryRows(l, batches[g][l][i].snap, batches[g][l][i].keys) :
       LET b == batches[g][l][i]
           values == BatchFn(l, b.keys, rows)
           good == Len(values) = Len(b.keys)
           bs1 == IF good
                  THEN [batches[g][l] EXCEPT ![i].st = "ok", ![i].vals = values]
                  ELSE [batches[g][l] EXCEPT ![i].st = "failed", ![i].cause = "TypeError"]
       IN /\ batches' = [batches EXCEPT ![g][l] = bs1]
          /\ cache' = [cache EXCEPT ![g][l] =
                         IF good THEN CacheAfterResolve(g, l, b) ELSE Cleared(g, l, b)]
          /\ calls' = ResettleAll(g, l, bs1)
  /\ UNCHANGED <<products, writes, ctx, nextRegistry, budget, inbox, listing, serverVars, shopVars, proc>>

\* the storage query of batch i fails with e
Fail(g, l, i, e) ==
  /\ i \in DOMAIN batches[g][l]
  /\ batches[g][l][i].st = "inflight"
  /\ LET b == batches[g][l][i]
         out == OnQueryError(l, b.keys, e)
         bs1 == IF out.rejected
                THEN [batches[g][l] EXCEPT ![i].st = "failed", ![i].qerr = e,
                                           ![i].cause = out.cause]
                ELSE [batches[g][l] EXCEPT ![i].st = "ok", ![i].qerr = e,
                                           ![i].vals = out.values]
     IN /\ batches' = [batches EXCEPT ![g][l] = bs1]
        /\ cache' = [cache EXCEPT ![g][l] =
                       IF out.rejected THEN Cleared(g, l, b) ELSE CacheAfterResolve(g, l, b)]
        /\ calls' = ResettleAll(g, l, bs1)
  /\ UNCHANGED <<products, writes, ctx, nextRegistry, budget, inbox, listing, serverVars, shopVars, proc>>

\* another client changes a product row: an update, or the creation of a
\* missing row
Write(k) ==
  /\ writes < MaxWrites
  /\ products' = [products EXCEPT ![k] = @ + 1]
  /\ writes' = writes + 1
  /\ UNCHANGED <<ctx, nextRegistry, batches, cache, calls, budget, inbox, listing, serverVars, shopVars, proc>>

\* GET /api/products
RestListProducts ==
  /\ inbox.endpoint = "rest"
  /\ LET q == inbox.query
         p == productQuerySchema(q)
         skip == Times(Minus(p.page, Num(1)), p.limit)
         where == RestWhere(p)
         orderBy == RestOrderBy(p)
         found == IF p.ok THEN FindManyProducts(where, skip, p.limit, orderBy)
                  ELSE [ok |-> FALSE, rows |-> <<>>]
     IN listing' = [endpoint |-> "rest", user |-> inbox.user, query |-> q,
                    built |-> p.ok, queried |-> p.ok, where |-> where,
                    orderBy |-> orderBy, skip |-> skip, take |-> p.limit,
                    code |-> IF found.ok THEN 200 ELSE 500, data |-> found.rows]
  /\ inbox' = NoRequest
  /\ UNCHANGED <<products, writes, ctx, nextRegistry, batches, cache, calls, budget, serverVars, shopVars, proc>>

\* Query.products, for a caller that is anonymous when the request carries no
\* valid token
GraphqlProducts ==
  /\ inbox.endpoint = "graphql"
  /\ LET args == inbox.query
         where == GraphqlWhere(args)
         limit == IF args.limit.set THEN Num(args.limit.v) ELSE Num(20)
         skip == IF args.skip.set THEN Num(args.skip.v) ELSE Num(0)
         found == FindManyProducts(where, skip, limit, GraphqlOrderBy)
     IN listing' = [endpoint |-> "graphql", user |-> inbox.user, query |-> args,
                    built |-> TRUE, queried |-> TRUE, where |-> where,
                    orderBy |-> GraphqlOrderBy, skip |-> skip, take |-> limit,
                    code |-> IF found.ok THEN 200 ELSE 500, data |-> found.rows]
  /\ inbox' = NoRequest
  /\ UNCHANGED <<products, writes, ctx, nextRegistry, batches, cache, calls, budget, serverVars, shopVars, proc>>

\* Query.categories
GraphqlCategories ==
  /\ inbox.endpoint = "categories"
  /\ LET args == inbox.query
         where == CategoryWhere(args)
         limit == IF args.limit.set THEN args.limit.v ELSE 50
         skip == IF args.skip.set THEN args.skip.v ELSE 0
         found == FindManyCategories(where, skip, limit)
     IN listing' = [endpoint |-> "categories", user |-> inbox.user, query |-> args,
                    built |-> TRUE, queried |-> TRUE, where |-> where,
                    orderBy |-> <<"sortOrder", "asc">>, skip |-> skip, take |-> limit,
                    code |-> IF found.ok THEN 200 ELSE 500, data |-> found.rows]
  /\ inbox' = NoRequest
  /\ UNCHANGED <<products, writes, ctx, nextRegistry, batches, cache, calls, budget, serverVars, shopVars, proc>>

\* the express app takes the request: the first layer that matches handles
\* it; yoga builds the request's context and starts the execution
AppHandle ==
  /\ request.method # "none"
  /\ response = NoResponse
  /\ LET h == AppHandler(request)
     IN IF h = "yoga"
        THEN /\ response' = [handler |-> h, code |-> 0]
             /\ ctx' = [ctx EXCEPT ![1] = [built |-> TRUE, loaders |-> createLoaders,
                                            builtAt |-> writes]]
             /\ nextRegistry' = nextRegistry + 1
             /\ exec' = [st |-> "started",
                         variants |-> [n \in 1..request.body.variants |-> n],
                         fields |-> request.body.fields]
        ELSE /\ response' = [handler |-> h, code |-> IF h = "health" THEN 200 ELSE 404]
             /\ UNCHANGED <<ctx, nextRegistry, exec>>
  /\ UNCHANGED <<products, writes, batches, cache, calls, budget, inbox, listing,
                 request, queries, shopVars, proc>>

\* the executor reaches the list of variants and calls the resolver of every
\* selected derived field of every variant
ResolveVariantFields ==
  /\ exec.st = "started"
  /\ exec' = [exec EXCEPT !.st = "resolving"]
  /\ queries' = ResolverCalls(exec.variants, exec.fields)
  /\ UNCHANGED <<products, writes, ctx, nextRegistry, batches, cache, calls, budget,
                 inbox, listing, request, response, shopVars, proc>>

\* storage answers query i and its resolver returns the field's value
AnswerQuery(i) ==
  /\ i \in DOMAIN queries
  /\ queries[i].st = "sent"
  /\ \E rows \in FindSelections(queries[i].variantId) :
       queries' = [queries EXCEPT ![i].st = "answered",
                                  ![i].value = FieldValue(queries[i].field, rows)]
  /\ UNCHANGED <<products, writes, ctx, nextRegistry, batches, cache, calls, budget,
                 inbox, listing, request, response, exec, shopVars, proc>>

\* every resolver has returned: the execution's result is sent
Respond ==
  /\ exec.st = "resolving"
  /\ \A i \in DOMAIN queries : queries[i].st = "answered"
  /\ exec' = [exec EXCEPT !.st = "done"]
  /\ response' = [response EXCEPT !.code = 200]
  /\ UNCHANGED <<products, writes, ctx, nextRegistry, batches, cache, calls, budget,
                 inbox, listing, request, queries, shopVars, proc>>

\* ----------------------------------------------------------- admin mutations
\* everything but storage, the calls and the call budget
nonShop == <<products, writes, ctx, nextRegistry, batches, cache, calls, inbox, listing,
             serverVars, proc>>

\* a resolver is called and runs to its first storage operation
Started(f) ==
  /\ budget > 0
  /\ budget' = budget - 1
  /\ flights' = Append(flights, f)

\* createProduct / createCategory / createCollection / createVariant
CreateEntity(u, e) ==
  LET f == [Flight("create", u) EXCEPT !.entity = e]
      id == store.entitySeq[e] + 1
  IN /\ IF ~Authorized(u)
        THEN Started(Threw(f, "Unauthorized")) /\ UNCHANGED store
        ELSE /\ Started(Returned(f))
             /\ store' = [store EXCEPT !.entity[e] = @ \cup {[id |-> id, ver |-> 1]},
                                 !.entitySeq[e] = id]
     /\ UNCHANGED nonShop

\* updateProduct / updateCategory / updateCollection / updateVariant
UpdateEntity(u, e, id) ==
  LET f == [Flight("update", u) EXCEPT !.entity = e, !.id = id]
      row == FindUnique(store.entity[e], id)
  IN /\ IF ~Authorized(u)
        THEN Started(Threw(f, "Unauthorized")) /\ UNCHANGED store
        ELSE IF row = NoRow
        THEN Started(Threw(f, "NotFound")) /\ UNCHANGED store
        ELSE /\ Started(Returned(f))
             /\ store' = [store EXCEPT !.entity[e] = (@ \ {row}) \cup {[row EXCEPT !.ver = @ + 1]}]
     /\ UNCHANGED nonShop

\* deleteProduct / deleteCategory / deleteCollection / deleteVariant
DeleteEntity(u, e, id) ==
  LET f == [Flight("delete", u) EXCEPT !.entity = e, !.id = id]
      row == FindUnique(store.entity[e], id)
  IN /\ IF ~Authorized(u)
        THEN Started(Threw(f, "Unauthorized")) /\ UNCHANGED store
        ELSE IF row = NoRow
        THEN Started(Threw(f, "NotFound")) /\ UNCHANGED store
        ELSE /\ Started(Returned(f))
             /\ store' = [store EXCEPT !.entity[e] = @ \ {row}]
     /\ UNCHANGED nonShop

\* createTheme: the new theme is not active
CreateTheme(u) ==
  LET f == [Flight("createTheme", u) EXCEPT !.entity = "theme"]
      id == store.themeSeq + 1
  IN /\ IF ~Authorized(u)
        THEN Started(Threw(f, "Unauthorized")) /\ UNCHANGED store
        ELSE /\ Started(Returned(f))
             /\ store' = [store EXCEPT !.theme = @ \cup {[id |-> id, isActive |-> FALSE, ver |-> 1]},
                                 !.themeSeq = id]
     /\ UNCHANGED nonShop

\* updateTheme
UpdateTheme(u, id) ==
  LET f == [Flight("updateTheme", u) EXCEPT !.entity = "theme", !.id = id]
      row == FindUnique(store.theme, id)
  IN /\ IF ~Authorized(u)
        THEN Started(Threw(f, "Unauthorized")) /\ UNCHANGED store
        ELSE IF row = NoRow
        THEN Started(Threw(f, "NotFound")) /\ UNCHANGED store
        ELSE /\ Started(Returned(f))
             /\ store' = [store EXCEPT !.theme = (@ \ {row}) \cup {[row EXCEPT !.ver = @ + 1]}]
     /\ UNCHANGED nonShop

\* setActiveTheme up to its second await: updateMany deactivates every theme
SetActiveTheme(u, id) ==
  LET f == [Flight("setActiveTheme", u) EXCEPT !.entity = "theme", !.id = id,
                                              !.before = ActiveThemes(store)]
  IN /\ IF ~Authorized(u)
        THEN Started(Threw(f, "Unauthorized")) /\ UNCHANGED store
        ELSE /\ Started([f EXCEPT !.pc = "activate", !.wrote = 1])
             /\ store' = [store EXCEPT !.theme = { [r EXCEPT !.isActive = FALSE] : r \in @ }]
     /\ UNCHANGED nonShop

\* setActiveTheme, second storage operation: update activates the theme, and
\* rejects when no theme has the id
ActivateTheme(i) ==
  /\ i \in DOMAIN flights
  /\ flights[i].pc = "activate"
  /\ LET f == flights[i]
         row == FindUnique(store.theme, f.id)
     IN IF row = NoRow
        THEN /\ flights' = [flights EXCEPT ![i] = Threw(f, "NotFound")]
             /\ UNCHANGED store
        ELSE /\ flights' = [flights EXCEPT ![i] = Returned(f)]
             /\ store' = [store EXCEPT !.theme = (@ \ {row}) \cup {[row EXCEPT !.isActive = TRUE]}]
  /\ UNCHANGED <<nonShop, budget>>

\* deleteTheme up to its second await: findUnique and the active-theme guard
DeleteTheme(u, id) ==
  LET f == [Flight("deleteTheme", u) EXCEPT !.entity = "theme", !.id = id]
      row == FindUnique(store.theme, id)
  IN /\ IF ~Authorized(u)
        THEN Started(Threw(f, "Unauthorized"))
        ELSE IF row # NoRow /\ row.isActive
        THEN Started(Threw([f EXCEPT !.seen = row], "ActiveTheme"))
        ELSE Started([f EXCEPT !.pc = "delete", !.seen = row])
     /\ UNCHANGED <<nonShop, store>>

\* deleteTheme, second storage operation: delete, which rejects when no theme
\* has the id
DeleteThemeRow(i) ==
  /\ i \in DOMAIN flights
  /\ flights[i].pc = "delete"
  /\ LET f == flights[i]
         row == FindUnique(store.theme, f.id)
     IN IF row = NoRow
        THEN /\ flights' = [flights EXCEPT ![i] = Threw(f, "NotFound")]
             /\ UNCHANGED store
        ELSE /\ flights' = [flights EXCEPT ![i] = Returned([f EXCEPT !.hot = row.isActive])]
             /\ store' = [store EXCEPT !.theme = @ \ {row}]
  /\ UNCHANGED <<nonShop, budget>>

\* ----------------------------------------------------------- review mutation
\* createReview up to its second await: the login and rating guards, then
\* findFirst for a review of the product by the caller
CreateReview(u, p, rating) ==
  LET f == [Flight("createReview", u) EXCEPT !.product = p, !.n = rating]
      existing == { r \in store.review : r.productId = p /\ r.userId = u }
  IN /\ IF ~Authorized(u) THEN Started(Threw(f, "Unauthorized"))
        ELSE IF rating < 1 \/ rating > 5 THEN Started(Threw(f, "BadRating"))
        ELSE IF existing # {} THEN Started(Threw(f, "Duplicate"))
        ELSE Started([f EXCEPT !.pc = "createReview"])
     /\ UNCHANGED <<nonShop, store>>

\* createReview, second storage operation: create. The code finds the earlier
\* review with findFirst, so whether storage has a unique key on the pair is
\* not decided by the code: a create for a pair that got a review in the
\* meantime either adds a second row or is rejected
CreateReviewRow(i) ==
  /\ i \in DOMAIN flights
  /\ flights[i].pc = "createReview"
  /\ LET f == flights[i]
         id == store.reviewSeq + 1
     IN \/ /\ flights' = [flights EXCEPT ![i] = Returned(f)]
           /\ store' = [store EXCEPT !.reviewSeq = id,
                       !.review = @ \cup {[id |-> id, productId |-> f.product,
                                           userId |-> f.user, rating |-> f.n,
                                           isVerified |-> FALSE, isPublished |-> FALSE]}]
        \/ /\ \E r \in store.review : r.productId = f.product /\ r.userId = f.user
           /\ flights' = [flights EXCEPT ![i] = Threw(f, "UniqueViolation")]
           /\ UNCHANGED store
  /\ UNCHANGED <<nonShop, budget>>

\* ------------------------------------------------------------- cart mutations
\* the carts a caller's lookup can return: findUnique by userId for a user,
\* findFirst by sessionId for a guest
CartsOf(u, sess) ==
  IF Authorized(u) THEN { c \in store.cart : c.userId = u }
  ELSE { c \in store.cart : c.sessionId = sess.v }

\* addToCart up to its second await: the lookup of the caller's cart
AddToCart(u, p, v, n, sess) ==
  LET f == [Flight("addToCart", u) EXCEPT !.product = p, !.variant = v, !.n = n,
                                         !.session = sess]
  IN /\ IF ~Authorized(u) /\ ~Truthy(sess)
        THEN Started(Threw(f, "SessionRequired"))
        ELSE IF CartsOf(u, sess) = {}
        THEN Started([f EXCEPT !.pc = "createCart"])
        ELSE \E c \in CartsOf(u, sess) : Started([f EXCEPT !.pc = "findItem", !.cart = c.id])
     /\ UNCHANGED <<nonShop, store>>

\* addToCart: cart.create, which the unique key on userId rejects when the
\* user got a cart in the meantime
CreateCart(i) ==
  /\ i \in DOMAIN flights
  /\ flights[i].pc = "createCart"
  /\ LET f == flights[i]
         id == store.cartSeq + 1
     IN IF Authorized(f.user) /\ \E c \in store.cart : c.userId = f.user
        THEN /\ flights' = [flights EXCEPT ![i] = Threw(f, "UniqueViolation")]
             /\ UNCHANGED store
        ELSE /\ flights' = [flights EXCEPT ![i] = [f EXCEPT !.pc = "findItem", !.cart = id,
                                                            !.wrote = @ + 1]]
             /\ store' = [store EXCEPT !.cartSeq = id,
                            !.cart = @ \cup {[id |-> id, userId |-> f.user,
                                              sessionId |-> IF Authorized(f.user) THEN ""
                                                            ELSE f.session.v]}]
  /\ UNCHANGED <<nonShop, budget>>

\* the outcomes of cartItem.findUnique on (cartId, productId, variantId): the
\* row with that key or none; with variantId null the client, which is not
\* part of this repository, rejects the lookup, or finds no row, or finds the
\* row without a variant
ItemLookups(cartId, p, v) ==
  LET same == { r \in store.item : r.cartId = cartId /\ r.productId = p /\ r.variantId = v }
  IN IF v = Absent
     THEN {[rejected |-> TRUE, row |-> NoRow], [rejected |-> FALSE, row |-> NoRow]}
            \cup { [rejected |-> FALSE, row |-> r] : r \in same }
     ELSE IF same = {} THEN {[rejected |-> FALSE, row |-> NoRow]}
     ELSE { [rejected |-> FALSE, row |-> r] : r \in same }

\* addToCart: the lookup of the item in the cart
FindItem(i) ==
  /\ i \in DOMAIN flights
  /\ flights[i].pc = "findItem"
  /\ \E o \in ItemLookups(flights[i].cart, flights[i].product, flights[i].variant) :
       LET f == flights[i]
       IN flights' = [flights EXCEPT ![i] =
            IF o.rejected THEN Threw(f, "Validation")
            ELSE IF o.row = NoRow THEN [f EXCEPT !.pc = "createItem"]
            ELSE [f EXCEPT !.pc = "updateItem", !.seen = o.row]]
  /\ UNCHANGED <<nonShop, budget, store>>

\* addToCart: update of the item found, to the quantity read plus the amount
UpdateItem(i) ==
  /\ i \in DOMAIN flights
  /\ flights[i].pc = "updateItem"
  /\ LET f == flights[i]
         row == FindUnique(store.item, f.seen.id)
     IN IF row = NoRow
        THEN /\ flights' = [flights EXCEPT ![i] = Threw(f, "NotFound")]
             /\ UNCHANGED store
        ELSE /\ flights' = [flights EXCEPT ![i] = Returned(f)]
             /\ store' = [store EXCEPT !.item =
                            (@ \ {row}) \cup {[row EXCEPT !.quantity = f.seen.quantity + f.n]}]
  /\ UNCHANGED <<nonShop, budget>>

\* addToCart: cartItem.create, which the unique key rejects when the cart got
\* the item in the meantime; rows without a variant do not collide
CreateItem(i) ==
  /\ i \in DOMAIN flights
  /\ flights[i].pc = "createItem"
  /\ LET f == flights[i]
         id == store.itemSeq + 1
     IN IF f.variant # Absent /\ \E r \in store.item :
             r.cartId = f.cart /\ r.productId = f.product /\ r.variantId = f.variant
        THEN /\ flights' = [flights EXCEPT ![i] = Threw(f, "UniqueViolation")]
             /\ UNCHANGED store
        ELSE /\ flights' = [flights EXCEPT ![i] = Returned(f)]
             /\ store' = [store EXCEPT !.itemSeq = id,
                            !.item = @ \cup {[id |-> id, cartId |-> f.cart,
                                              productId |-> f.product,
                                              variantId |-> f.variant, quantity |-> f.n]}]
  /\ UNCHANGED <<nonShop, budget>>

\* the userId of the cart an item row belongs to (item.cart.userId)
OwnerOf(row) == FindUnique(store.cart, row.cartId).userId

\* the ownership guard of updateCartItem and removeFromCart
Forbidden(u, row) == Authorized(u) /\ OwnerOf(row) # u

\* updateCartItem up to its second await: lookup, ownership and quantity guards
UpdateCartItem(u, id, n) ==
  LET f == [Flight("updateCartItem", u) EXCEPT !.id = id, !.n = n]
      row == FindUnique(store.item, id)
  IN /\ IF row = NoRow THEN Started(Threw(f, "NotFound"))
        ELSE IF Forbidden(u, row) THEN Started(Threw([f EXCEPT !.seen = row], "Unauthorized"))
        ELSE IF n < 1 THEN Started(Threw([f EXCEPT !.seen = row], "BadQuantity"))
        ELSE Started([f EXCEPT !.pc = "update", !.seen = row])
     /\ UNCHANGED <<nonShop, store>>

\* updateCartItem, second storage operation: update
UpdateItemRow(i) ==
  /\ i \in DOMAIN flights
  /\ flights[i].pc = "update"
  /\ LET f == flights[i]
         row == FindUnique(store.item, f.id)
     IN IF row = NoRow
        THEN /\ flights' = [flights EXCEPT ![i] = Threw(f, "NotFound")]
             /\ UNCHANGED store
        ELSE /\ flights' = [flights EXCEPT ![i] = Returned(f)]
             /\ store' = [store EXCEPT !.item = (@ \ {row}) \cup {[row EXCEPT !.quantity = f.n]}]
  /\ UNCHANGED <<nonShop, budget>>

\* removeFromCart up to its second await: lookup and ownership guard
RemoveFromCart(u, id) ==
  LET f == [Flight("removeFromCart", u) EXCEPT !.id = id]
      row == FindUnique(store.item, id)
  IN /\ IF row = NoRow THEN Started(Threw(f, "NotFound"))
        ELSE IF Forbidden(u, row) THEN Started(Threw([f EXCEPT !.seen = row], "Unauthorized"))
        ELSE Started([f EXCEPT !.pc = "remove", !.seen = row])
     /\ UNCHANGED <<nonShop, store>>

\* removeFromCart, second storage operation: delete
DeleteItemRow(i) ==
  /\ i \in DOMAIN flights
  /\ flights[i].pc = "remove"
  /\ LET f == flights[i]
         row == FindUnique(store.item, f.id)
     IN IF row = NoRow
        THEN /\ flights' = [flights EXCEPT ![i] = Threw(f, "NotFound")]
             /\ UNCHANGED store
        ELSE /\ flights' = [flights EXCEPT ![i] = Returned(f)]
             /\ store' = [store EXCEPT !.item = @ \ {row}]
  /\ UNCHANGED <<nonShop, budget>>

\* clearCart up to its second await: the lookup of the caller's cart; without
\* a cart it returns false
ClearCart(u, sess) ==
  LET f == [Flight("clearCart", u) EXCEPT !.session = sess]
      mine == IF Authorized(u) \/ Truthy(sess) THEN CartsOf(u, sess) ELSE {}
  IN /\ IF mine = {} THEN Started([f EXCEPT !.pc = "done", !.out = "false"])
        ELSE \E c \in mine : Started([f EXCEPT !.pc = "clear", !.cart = c.id])
     /\ UNCHANGED <<nonShop, store>>

\* clearCart, second storage operation: deleteMany of the cart's items
ClearItems(i) ==
  /\ i \in DOMAIN flights
  /\ flights[i].pc = "clear"
  /\ flights' = [flights EXCEPT ![i] = Returned(flights[i])]
  /\ store' = [store EXCEPT !.item = { r \in @ : r.cartId # flights[i].cart }]
  /\ UNCHANGED <<nonShop, budget>>

\* -------------------------------------------------------------------- process
nonProc == <<products, writes, ctx, nextRegistry, batches, cache, calls, budget, inbox,
             listing, serverVars, shopVars>>

\* process.exit(code): ends the process, nothing runs after it
Exit(p, code) == [p EXCEPT !.exited = TRUE, !.code = code]

\* the server emits 'close' once it has stopped listening and its last
\* connection has ended; every callback given to server.close then runs up to
\* its await of prisma.$disconnect()
EmitCloseIfDrained(p) ==
  IF p.server # "listening" /\ p.conns = 0
  THEN [p EXCEPT !.server = "closed", !.listeners = 0, !.disconnecting = @ + p.listeners]
  ELSE p

\* variation: no 10 second timer is ever pending
TimerPending_never(p) == p.timers > p.timers

\* a timer set by gracefulShutdown is pending
TimerPending(p) == p.timers > 0

\* a client opens a connection to the listening server
Connection ==
  /\ ~proc.exited
  /\ proc.server = "listening"
  /\ proc.conns < MaxConns
  /\ proc' = [proc EXCEPT !.conns = @ + 1]
  /\ UNCHANGED nonProc

\* a connection ends
ConnectionEnds ==
  /\ ~proc.exited
  /\ proc.conns > 0
  /\ proc' = EmitCloseIfDrained([proc EXCEPT !.conns = @ - 1])
  /\ UNCHANGED nonProc

\* the SIGTERM and SIGINT listeners: gracefulShutdown(signal) calls
\* server.close with its callback and sets the 10 second timer
GracefulShutdown(signal) ==
  /\ ~proc.exited
  /\ Len(proc.signals) < MaxSignals
  /\ proc' = EmitCloseIfDrained(
       [proc EXCEPT !.signals = Append(@, signal),
                    !.server = IF @ = "listening" THEN "closing" ELSE @,
                    !.listeners = @ + 1,
                    !.timers = @ + 1])
  /\ UNCHANGED nonProc

\* prisma.$disconnect() resolved: process.exit(0)
Disconnected ==
  /\ ~proc.exited
  /\ proc.disconnecting > 0
  /\ proc' = Exit([proc EXCEPT !.disconnecting = @ - 1, !.client = "disconnected"], 0)
  /\ UNCHANGED nonProc

\* prisma.$disconnect() rejected: the catch block calls process.exit(1)
DisconnectFailed ==
  /\ ~proc.exited
  /\ proc.disconnecting > 0
  /\ proc' = Exit([proc EXCEPT !.disconnecting = @ - 1, !.failed = TRUE], 1)
  /\ UNCHANGED nonProc

\* the 10 second timer fires: process.exit(1)
ForceShutdown ==
  /\ ~proc.exited
  /\ TimerPending(proc)
  /\ proc' = Exit([proc EXCEPT !.timers = @ - 1, !.fired = TRUE], 1)
  /\ UNCHANGED nonProc

\* --------------------------------------------------------------- behaviours
\* One request and its product loader, with storage writes and failures.
InitLoader == Init0 /\ budget = MaxLoads /\ inbox = NoRequest /\ request = NoHttpRequest

NextLoader ==
  \/ BuildContext(1)
  \/ \E k \in Keys : Load(1, "productLoader", k)
  \/ \E i \in 1..MaxLoads : Dispatch(1, "productLoader", i)
  \/ \E i \in 1..MaxLoads : Complete(1, "productLoader", i)
  \/ \E i \in 1..MaxLoads, e \in Causes : Fail(1, "productLoader", i, e)

SpecLoader == InitLoader /\ [][NextLoader]_vars

\* One request and its two relation loaders, with failures.
RelLoaders == {"productVariantsLoader", "productReviewsLoader"}

InitRelations == Init0 /\ budget = MaxRelLoads /\ inbox = NoRequest /\ request = NoHttpRequest

NextRelations ==
  \/ BuildContext(1)
  \/ \E l \in RelLoaders, k \in Keys : Load(1, l, k)
  \/ \E l \in RelLoaders, i \in 1..MaxRelLoads : Dispatch(1, l, i)
  \/ \E l \in RelLoaders, i \in 1..MaxRelLoads : Complete(1, l, i)
  \/ \E l \in RelLoaders, i \in 1..MaxRelLoads, e \in Causes : Fail(1, l, i, e)

SpecRelations == InitRelations /\ [][NextRelations]_vars

\* Two requests, each with its own context, against changing storage.
InitRequests == Init0 /\ budget = MaxReqLoads /\ inbox = NoRequest /\ request = NoHttpRequest

NextRequests ==
  \/ \E r \in Req : BuildContext(r)
  \/ \E r \in Req, k \in WrittenKeys : Load(r, "productLoader", k)
  \/ \E g \in RegIds, i \in 1..MaxReqLoads : Dispatch(g, "productLoader", i)
  \/ \E g \in RegIds, i \in 1..MaxReqLoads : Complete(g, "productLoader", i)
  \/ \E k \in WrittenKeys : Write(k)

SpecRequests == InitRequests /\ [][NextRequests]_vars

\* One request using every kind of loader, without failures.
InitAllLoaders == Init0 /\ budget = MaxAllLoads /\ inbox = NoRequest /\ request = NoHttpRequest

NextAllLoaders ==
  \/ BuildContext(1)
  \/ \E l \in LoaderNames, k \in Keys : Load(1, l, k)
  \/ \E l \in LoaderNames, i \in 1..MaxAllLoads : Dispatch(1, l, i)
  \/ \E l \in LoaderNames, i \in 1..MaxAllLoads : Complete(1, l, i)

SpecAllLoaders == InitAllLoaders /\ [][NextAllLoaders]_vars

\* Product list requests over the REST route and the GraphQL field.
OptStr(S) == {Absent} \cup { Is(x) : x \in S }

RestQueries ==
  [ page : OptStr({"1", "2", "0", "abc"}),
    limit : OptStr({"1", "2", "0", "abc"}),
    status : OptStr(Statuses \cup {"bogus"}),
    featured : OptStr({"true", "false"}),
    category : OptStr({"shoes"}),
    collection : OptStr({"sale"}),
    sortBy : OptStr(SortKeys \cup {"bogus"}) ]

GraphqlArgs ==
  [ limit : {Absent, Is(1), Is(2)},
    skip : {Absent, Is(1)},
    status : OptStr(Statuses) \cup {JNull},
    categorySlug : OptStr({"shoes"}),
    collectionSlug : OptStr({"sale"}),
    featured : {Absent, JNull, Is(TRUE), Is(FALSE)},
    search : {Absent, Is(<<"r", "E">>), Is(<<"u">>)} ]

ListRequests ==
  [endpoint : {"rest"}, user : Users, query : RestQueries]
    \cup [endpoint : {"graphql"}, user : Users, query : GraphqlArgs]

InitLists == Init0 /\ budget = 0 /\ inbox \in ListRequests /\ request = NoHttpRequest

NextLists ==
  \/ RestListProducts
  \/ GraphqlProducts

SpecLists == InitLists /\ [][NextLists]_vars

\* Category list requests over the GraphQL categories field.
CategoryArgs ==
  [ limit : {Absent, Is(1), Is(2)},
    skip : {Absent, Is(1)},
    parentId : {Absent, JNull, Is("c1"), Is("c9")},
    isVisible : {Absent, JNull, Is(TRUE), Is(FALSE)} ]

CategoryRequests == [endpoint : {"categories"}, user : Users, query : CategoryArgs]

InitCategories ==
  Init0 /\ budget = 0 /\ inbox \in CategoryRequests /\ request = NoHttpRequest

NextCategories == GraphqlCategories

SpecCategories == InitCategories /\ [][NextCategories]_vars

\* One HTTP request to the running server; a request to /graphql asks for
\* derived fields of the variants of one product.
Paths ==
  { <<"health">>, <<"graphql">>, <<"nope">>,
    <<"api", "products">>, <<"api", "products", "red-shoe">>,
    <<"api", "products", "search", "index">>,
    <<"api", "categories">>, <<"api", "categories", "shoes">>,
    <<"api", "collections">>, <<"api", "collections", "sale">> }

\* the selections of derived fields a query can make, in document order
Selections == UNION { Orderings(S) : S \in SUBSET DerivedFields }

HttpRequests ==
  [method : {"GET", "POST"}, path : Paths \ {<<"graphql">>}]
    \cup [method : {"GET", "POST"}, path : {<<"graphql">>},
          body : [variants : 0..MaxVariants, fields : Selections]]

InitServer == Init0 /\ budget = 0 /\ inbox = NoRequest /\ request \in HttpRequests

NextServer ==
  \/ AppHandle
  \/ ResolveVariantFields
  \/ \E i \in 1..(MaxVariants * Cardinality(DerivedFields)) : AnswerQuery(i)
  \/ Respond

SpecServer == InitServer /\ [][NextServer]_vars

\* Mutation calls on the catalog tables and on themes, by authenticated and
\* unauthenticated callers, interleaved at their awaits.
AdminCallers == {NoUser, 1}
EntityTargets == {1, 9}
ThemeTargets == {1, 2, 9}

InitAdmin == Init0 /\ budget = MaxAdminCalls /\ inbox = NoRequest /\ request = NoHttpRequest

NextAdmin ==
  \/ \E u \in AdminCallers, e \in Entities : CreateEntity(u, e)
  \/ \E u \in AdminCallers, e \in Entities, id \in EntityTargets : UpdateEntity(u, e, id)
  \/ \E u \in AdminCallers, e \in Entities, id \in EntityTargets : DeleteEntity(u, e, id)
  \/ \E u \in AdminCallers : CreateTheme(u)
  \/ \E u \in AdminCallers, id \in ThemeTargets : UpdateTheme(u, id)
  \/ \E u \in AdminCallers, id \in ThemeTargets : SetActiveTheme(u, id)
  \/ \E i \in 1..MaxAdminCalls : ActivateTheme(i)
  \/ \E u \in AdminCallers, id \in ThemeTargets : DeleteTheme(u, id)
  \/ \E i \in 1..MaxAdminCalls : DeleteThemeRow(i)

SpecAdmin == InitAdmin /\ [][NextAdmin]_vars

\* createReview calls, interleaved at their awaits.
Callers == {NoUser, 1, 2}
Ratings == {0, 1, 5, 6}

InitReviews == Init0 /\ budget = MaxReviewCalls /\ inbox = NoRequest /\ request = NoHttpRequest

NextReviews ==
  \/ \E u \in Callers, p \in {10, 12}, rating \in Ratings : CreateReview(u, p, rating)
  \/ \E i \in 1..MaxReviewCalls : CreateReviewRow(i)

SpecReviews == InitReviews /\ [][NextReviews]_vars

\* Cart mutation calls by two users and a guest, interleaved at their awaits.
Sessions == {Absent, Is("s1")}
Amounts == {0, 1, 2}
ItemTargets == {1, 2}

InitCart == Init0 /\ budget = MaxCartCalls /\ inbox = NoRequest /\ request = NoHttpRequest

NextCart ==
  \/ \E u \in Callers, v \in {Absent, Is(1)}, n \in Amounts, sess \in Sessions :
       AddToCart(u, 10, v, n, sess)
  \/ \E i \in 1..MaxCartCalls : CreateCart(i)
  \/ \E i \in 1..MaxCartCalls : FindItem(i)
  \/ \E i \in 1..MaxCartCalls : UpdateItem(i)
  \/ \E i \in 1..MaxCartCalls : CreateItem(i)
  \/ \E u \in Callers, id \in ItemTargets, n \in {0, 3} : UpdateCartItem(u, id, n)
  \/ \E i \in 1..MaxCartCalls : UpdateItemRow(i)
  \/ \E u \in Callers, id \in ItemTargets : RemoveFromCart(u, id)
  \/ \E i \in 1..MaxCartCalls : DeleteItemRow(i)
  \/ \E u \in Callers, sess \in Sessions : ClearCart(u, sess)
  \/ \E i \in 1..MaxCartCalls : ClearItems(i)

SpecCart == InitCart /\ [][NextCart]_vars

\* The process from listening to exit. Connections may stay open and
\* $disconnect may never settle; the event loop runs a timer that is due, which
\* is the fairness condition of SpecShutdownLive.
Signals == {"SIGTERM", "SIGINT"}

InitShutdown == Init0 /\ budget = 0 /\ inbox = NoRequest /\ request = NoHttpRequest

NextShutdown ==
  \/ Connection
  \/ ConnectionEnds
  \/ \E signal \in Signals : GracefulShutdown(signal)
  \/ Disconnected
  \/ DisconnectFailed
  \/ ForceShutdown

SpecShutdown == InitShutdown /\ [][NextShutdown]_vars

SpecShutdownLive == SpecShutdown /\ WF_vars(ForceShutdown)

\* ==================================================================== claims
\* the result a single-entity loader owes key k against storage state db
StoredRow(db, k) == IF db[k] > 0 THEN RowV(ProductRow(db, k)) ELSE NullV

\* the rows a relation loader's query admits for parent p
ChildrenOf(nm, p) ==
  CASE nm = "productVariantsLoader" -> { v \in VariantRows : v.productId = p }
    [] nm = "productReviewsLoader" -> { v \in ReviewRows : v.productId = p /\ v.isPublished }
    [] nm = "userAddressesLoader" -> { v \in AddressRows : v.userId = p }

CallKeys(cs) == { cs[n].key : n \in DOMAIN cs }

BeforeAnyFlush(cs) == \A n \in DOMAIN cs : cs[n].flushed = 0

NoneOpen(bs) == \A i \in DOMAIN bs : bs[i].st # "open"

\* C1: while every load() made on a loader was issued before any of its batches
\* was dispatched, the batch function is invoked at most once; once that batch
\* is dispatched it was invoked exactly once, and its input holds each distinct
\* requested key exactly once and nothing else.
C1_OneFetchPerTick ==
  \A g \in RegIds, nm \in LoaderNames :
    LET cs == calls[g][nm]
        bs == batches[g][LoaderOf(nm)]
        log == FetchLog(g, LoaderOf(nm))
    IN (cs # <<>> /\ BeforeAnyFlush(cs)) =>
         /\ Len(log) <= 1
         /\ NoneOpen(bs) =>
              /\ Len(log) = 1
              /\ ToSet(log[1].keys) = CallKeys(cs)
              /\ NoDup(log[1].keys)

C1_Witness ==
  \E g \in RegIds, nm \in LoaderNames :
    LET cs == calls[g][nm]
        log == FetchLog(g, LoaderOf(nm))
    IN /\ Len(cs) >= 3
       /\ BeforeAnyFlush(cs)
       /\ Cardinality(CallKeys(cs)) = 2
       /\ Len(log) = 1
       /\ log[1].st = "ok"

\* C2: on the single-entity loader every resolved load(k) holds the row stored
\* under id k when its batch was fetched, or null when there was none, whatever
\* the position or repetition of k; no batch is handed a key twice.
C2_PositionalResult ==
  \A g \in RegIds, nm \in LoaderNames :
    IsSingle(nm) =>
      LET cs == calls[g][nm]
          bs == batches[g][LoaderOf(nm)]
      IN /\ \A i \in DOMAIN bs : NoDup(bs[i].keys)
         /\ \A n \in DOMAIN cs :
              cs[n].st = "ok" => cs[n].val = StoredRow(bs[cs[n].src].snap, cs[n].key)

C2_Witness ==
  LET cs == calls[1]["productLoader"]
      log == FetchLog(1, "productLoader")
  IN /\ Len(cs) = 4
     /\ [n \in 1..4 |-> cs[n].key] = <<10, 11, 10, 12>>
     /\ [n \in 1..4 |-> cs[n].val] =
          <<RowV([id |-> 10, ver |-> 1]), NullV,
            RowV([id |-> 10, ver |-> 1]), RowV([id |-> 12, ver |-> 1])>>
     /\ Len(log) = 1
     /\ ToSet(log[1].keys) = {10, 11, 12}
     /\ Len(log[1].keys) = 3

\* C3: on a relation loader every resolved load(p) holds a list with exactly
\* the rows of the relation whose parent is p, each once, and the empty list
\* when there are none; it is never null, and a load fails only when the storage
\* query of its batch failed.
C3_GroupedChildren ==
  \A g \in RegIds, nm \in LoaderNames :
    ~IsSingle(nm) =>
      LET cs == calls[g][nm]
          bs == batches[g][LoaderOf(nm)]
      IN \A n \in DOMAIN cs :
           /\ cs[n].st = "ok" =>
                /\ cs[n].val.t = "list"
                /\ ToSet(cs[n].val.items) = ChildrenOf(nm, cs[n].key)
                /\ NoDup(cs[n].val.items)
           /\ cs[n].st = "failed" => bs[cs[n].src].qerr \in Causes

C3_Witness ==
  LET cs == calls[1]["productVariantsLoader"]
  IN /\ Len(cs) = 2
     /\ cs[1].key = 10 /\ cs[1].st = "ok" /\ Len(cs[1].val.items) = 2
     /\ cs[2].key = 11 /\ cs[2].st = "ok" /\ cs[2].val = ListV(<<>>)

\* C4: a load(K) issued after an earlier load(K) of the loader was fetched and
\* resolved never fails, resolves to the value that fetch produced, and the
\* number of fetches handed K stays what it was when the load was issued.
C4_CacheStable ==
  \A g \in RegIds, nm \in LoaderNames :
    LET cs == calls[g][nm]
        bs == batches[g][LoaderOf(nm)]
    IN \A n \in DOMAIN cs :
         cs[n].cached =>
           /\ Cardinality(FetchesOf(bs, cs[n].key)) = cs[n].seen
           /\ cs[n].st # "failed"
           /\ cs[n].st = "ok" =>
                \E i \in DOMAIN bs :
                  /\ i < cs[n].carrier
                  /\ bs[i].st = "ok"
                  /\ cs[n].key \in ToSet(bs[i].keys)
                  /\ cs[n].val = bs[i].vals[IndexOf(bs[i].keys, cs[n].key)]

C4_Witness ==
  \E n \in DOMAIN calls[1]["productLoader"] :
    LET c == calls[1]["productLoader"][n]
    IN c.cached /\ c.st = "ok" /\ c.val.t = "row" /\ c.seen = 1

\* C5: every built request context holds a registry no other context holds,
\* one registry is allocated per context built, and every resolved load of a
\* request holds the row as stored at a fetch made by its own registry, after
\* its context was built.
C5_RequestIsolation ==
  /\ nextRegistry - 1 = Cardinality({ r \in Req : ctx[r].built })
  /\ \A r1, r2 \in Req :
       (r1 # r2 /\ ctx[r1].built /\ ctx[r2].built) => ctx[r1].loaders # ctx[r2].loaders
  /\ \A g \in RegIds :
       LET cs == calls[g]["productLoader"]
           bs == batches[g][LoaderOf("productLoader")]
       IN \A n \in DOMAIN cs :
            /\ ctx[cs[n].req].loaders = g
            /\ cs[n].st = "ok" =>
                 /\ bs[cs[n].src].at >= ctx[cs[n].req].builtAt
                 /\ cs[n].val = StoredRow(bs[cs[n].src].snap, cs[n].key)

C5_Witness ==
  \E g1, g2 \in RegIds :
    \E n1 \in DOMAIN calls[g1]["productLoader"], n2 \in DOMAIN calls[g2]["productLoader"] :
      LET c1 == calls[g1]["productLoader"][n1]
          c2 == calls[g2]["productLoader"][n2]
      IN /\ c1.req = 1 /\ c2.req = 2
         /\ c1.key = 10 /\ c2.key = 10
         /\ batches[g1]["productLoader"][c1.src].st = "ok"
         /\ ctx[2].builtAt = 1
         /\ c1.st = "ok" /\ c1.val = RowV([id |-> 10, ver |-> 1])
         /\ c2.st = "ok" /\ c2.val = RowV([id |-> 10, ver |-> 2])

C7_AllOrNothing ==
  \A g \in RegIds, nm \in LoaderNames :
    LET cs == calls[g][nm]
        bs == batches[g][LoaderOf(nm)]
    IN \A n \in DOMAIN cs :
         LET c == cs[n]
             b == bs[c.src]
         IN /\ b.qerr # "none" =>
                 /\ c.st # "ok"
                 /\ c.carrier = c.src => c.st = "failed"
                 /\ c.st = "failed" => c.cause = b.qerr
            /\ c.st = "failed" => (b.qerr \in Causes /\ c.cause = b.qerr)

C7_Witness ==
  \E nm \in LoaderNames, i \in DOMAIN batches[1]["productReviewsLoader"] :
    LET cs == calls[1]["productReviewsLoader"]
        b == batches[1]["productReviewsLoader"][i]
    IN /\ b.st = "failed" /\ b.qerr = "ETIMEDOUT" /\ Len(b.keys) = 2
       /\ \A k \in ToSet(b.keys) :
            \E n \in DOMAIN cs : cs[n].key = k /\ cs[n].src = i /\ cs[n].st = "failed"
                                   /\ cs[n].cause = "ETIMEDOUT"
       /\ \E n \in DOMAIN calls[1][nm] : calls[1][nm][n].st = "ok"

\* C8: no batch of a loader holds a key that was not requested under that
\* loader's own name; and when every load of a registry was issued before any
\* flush and every batch is dispatched, each loader name that was used made
\* exactly one fetch, with exactly the keys requested under it, and every
\* other loader made none.
C8_IndependentLoaders ==
  \A g \in RegIds :
    /\ \A nm \in LoaderNames :
         \A i \in DOMAIN batches[g][LoaderOf(nm)] :
           ToSet(batches[g][LoaderOf(nm)][i].keys) \subseteq CallKeys(calls[g][nm])
    /\ ((\A nm \in LoaderNames : BeforeAnyFlush(calls[g][nm]) /\ NoneOpen(batches[g][LoaderOf(nm)]))
          => \A nm \in LoaderNames :
               LET log == FetchLog(g, LoaderOf(nm))
               IN IF calls[g][nm] = <<>>
                  THEN Len(log) = 0
                  ELSE /\ Len(log) = 1
                       /\ ToSet(log[1].keys) = CallKeys(calls[g][nm])
                       /\ NoDup(log[1].keys))

C8_Witness ==
  LET vs == calls[1]["productVariantsLoader"]
      rs == calls[1]["productReviewsLoader"]
      vlog == FetchLog(1, "productVariantsLoader")
      rlog == FetchLog(1, "productReviewsLoader")
  IN /\ Len(vs) = 2 /\ CallKeys(vs) = {10, 11}
     /\ Len(rs) = 1 /\ CallKeys(rs) = {10}
     /\ BeforeAnyFlush(vs) /\ BeforeAnyFlush(rs)
     /\ Len(vlog) = 1 /\ ToSet(vlog[1].keys) = {10, 11}
     /\ Len(rlog) = 1 /\ rlog[1].keys = <<10>>
     /\ Len(FetchLog(1, "productLoader")) = 0

\* C9: after every product list request that left status out, on either
\* endpoint, the filter handed to storage restricts status to PUBLISHED.
C9_DefaultPublished ==
  (listing.endpoint # "none" /\ listing.built /\ ~listing.query.status.set)
    => listing.where.status = Is("PUBLISHED")

\* C10: a product list answered to a caller without a valid token holds no
\* product whose status is DRAFT or ARCHIVED, whatever the parameters.
C10_AnonymousSeesPublishedOnly ==
  (listing.endpoint # "none" /\ listing.user = "anonymous")
    => \A n \in DOMAIN listing.data : listing.data[n].status = "PUBLISHED"

\* the options of a REST list request as the arguments of the GraphQL field
\* that carry the same status, featured flag, category and collection slugs
SameOptions(q) ==
  [ limit |-> Absent, skip |-> Absent,
    status |-> q.status,
    categorySlug |-> q.category,
    collectionSlug |-> q.collection,
    featured |-> IF q.featured.set THEN Is(q.featured.v = "true") ELSE Absent,
    search |-> Absent ]

\* C11: the filter and the ordering the REST route built for a list request
\* are the ones the GraphQL products field builds for the same status,
\* featured flag, category slug, collection slug, search text and sort key.
C11_SameFilterAndOrder ==
  (listing.endpoint = "rest" /\ listing.built) =>
    /\ listing.where = GraphqlWhere(SameOptions(listing.query))
    /\ listing.orderBy = GraphqlOrderBy

\* the ordering each sort key stands for
OrderingOf(key) ==
  CASE key = "newest" -> <<"createdAt", "desc">>
    [] key = "oldest" -> <<"createdAt", "asc">>
    [] key = "price-asc" -> <<"basePrice", "asc">>
    [] key = "price-desc" -> <<"basePrice", "desc">>
    [] key = "name-asc" -> <<"name", "asc">>
    [] key = "name-desc" -> <<"name", "desc">>

InOrder(rows, orderBy) ==
  \A i, j \in DOMAIN rows :
    i < j => IF orderBy[2] = "asc"
             THEN FieldOf(rows[i], orderBy[1]) <= FieldOf(rows[j], orderBy[1])
             ELSE FieldOf(rows[i], orderBy[1]) >= FieldOf(rows[j], orderBy[1])

\* C12: a list request with a recognised sort key is ordered by exactly the
\* ordering of that key, never by the default; one without a sort key (every
\* request of the GraphQL field, which takes none) is ordered by creation time
\* descending; and the rows answered are in that order.
C12_SortKeyOrdering ==
  (listing.endpoint # "none" /\ listing.built) =>
    /\ listing.orderBy =
         IF listing.endpoint = "rest" /\ listing.query.sortBy.set
         THEN OrderingOf(listing.query.sortBy.v)
         ELSE <<"createdAt", "desc">>
    /\ InOrder(listing.data, listing.orderBy)

C12_Witness ==
  /\ listing.endpoint = "rest"
  /\ listing.query.sortBy = Is("price-asc")
  /\ listing.orderBy = <<"basePrice", "asc">>
  /\ listing.code = 200
  /\ Len(listing.data) = 2
  /\ listing.data[1].basePrice < listing.data[2].basePrice
  /\ listing.data[1].createdAt < listing.data[2].createdAt

\* the boolean a list request supplied as its featured option
SuppliedFeatured(l) ==
  IF l.endpoint = "rest" THEN l.query.featured.v = "true" ELSE l.query.featured.v

\* C13: the filter of a list request restricts the featured flag to the exact
\* boolean the request supplied, and holds no entry for the featured flag when
\* the request left the option out.
C13_FeaturedExact ==
  (listing.endpoint # "none" /\ listing.built /\ ~IsNull(listing.query.featured)) =>
    IF listing.query.featured.set
    THEN listing.where.isFeatured = Is(SuppliedFeatured(listing))
    ELSE listing.where.isFeatured = Absent

\* the text is a positive integer in decimal notation
PositiveInteger(str) == str \in {"1", "2"}

\* C14: a REST list request whose page or limit is given and is not a positive
\* integer is rejected by validation: no filter is built and no storage query
\* is issued. Otherwise page defaults to 1, limit to 20, and the offset is
\* (page - 1) * limit, which is not negative.
C14_PaginationValidated ==
  listing.endpoint = "rest" =>
    LET q == listing.query
        bad(x) == x.set /\ ~PositiveInteger(x.v)
        page == IF q.page.set THEN ParseInt(q.page.v) ELSE Num(1)
        limit == IF q.limit.set THEN ParseInt(q.limit.v) ELSE Num(20)
    IN IF bad(q.page) \/ bad(q.limit)
       THEN ~listing.built /\ ~listing.queried
       ELSE listing.built =>
              /\ listing.take = limit
              /\ listing.skip = Num((page.n - 1) * limit.n)
              /\ listing.skip.n >= 0

\* C15: the derived fields of the variants of one execution are resolved with a
\* number of storage queries that does not grow with the number of variants:
\* at most one query for each derived field.
C15_BoundedFetches ==
  \A f \in DerivedFields :
    Cardinality({ i \in DOMAIN queries : queries[i].field = f }) <= 1

\* the REST endpoints the README lists: the path a router is documented
\* under, and the router
Documented ==
  { [mount |-> <<"api", "products">>, router |-> ProductsRouter],
    [mount |-> <<"api", "categories">>, router |-> CategoriesRouter],
    [mount |-> <<"api", "collections">>, router |-> CollectionsRouter] }

\* C16: a GET of a documented REST endpoint is answered by the route handler
\* of the router documented for it, not by the catch-all 404 handler.
C16_DocumentedRoutesServed ==
  (response # NoResponse /\ request.method = "GET") =>
    \A d \in Documented :
      IsPrefix(d.mount, request.path) =>
        /\ response.handler # "notFound"
        /\ response.handler =
             RouterHandler(d.router, SubSeq(request.path, Len(d.mount) + 1, Len(request.path)))

\* the load() calls of cs that batch i carries and that added their key to it
Misses(cs, i) == { n \in DOMAIN cs : cs[n].carrier = i /\ ~cs[n].hit }

\* C17: two loads of a loader with no dispatch between them travel with the
\* same batch, and a load made after a dispatch travels with a later one; a
\* batch holds exactly the keys of the loads that missed the cache, so it is
\* fetched once however many loads it carries; a load of a key that no live
\* batch holds, made after a dispatch, puts the key into the new batch, which
\* is the one further fetch; and a load of a key of a batch in flight takes
\* that batch's promise and adds no key to any batch.
C17_LateLoads ==
  \A g \in RegIds, nm \in LoaderNames :
    LET cs == calls[g][nm]
        bs == batches[g][LoaderOf(nm)]
    IN /\ \A n, m \in DOMAIN cs :
            n < m => /\ cs[n].flushed = cs[m].flushed => cs[n].carrier = cs[m].carrier
                     /\ cs[n].flushed < cs[m].flushed => cs[n].carrier < cs[m].carrier
       /\ \A i \in DOMAIN bs :
            /\ ToSet(bs[i].keys) = { cs[n].key : n \in Misses(cs, i) }
            /\ Len(bs[i].keys) = Cardinality(Misses(cs, i))
            /\ Fetched(bs[i]) <=> (bs[i].st # "open" /\ Misses(cs, i) # {})
       /\ \A n \in DOMAIN cs :
            /\ cs[n].inflight =>
                 /\ cs[n].hit
                 /\ cs[n].src < cs[n].carrier
                 /\ cs[n].key \in ToSet(bs[cs[n].src].keys)
            /\ (~cs[n].hit /\ cs[n].flushed > 0) =>
                 /\ cs[n].src = cs[n].carrier
                 /\ cs[n].seen = Cardinality({ i \in FetchesOf(bs, cs[n].key) : i < cs[n].carrier })

C17_Witness ==
  LET cs == calls[1]["productLoader"]
      log == FetchLog(1, "productLoader")
  IN /\ Len(cs) = 4
     /\ cs[1].key = 10 /\ cs[2].key = 11 /\ cs[2].carrier = cs[1].carrier
     /\ cs[3].key = 12 /\ cs[3].flushed = 1 /\ ~cs[3].hit
     /\ cs[4].key = 10 /\ cs[4].inflight /\ cs[4].carrier = cs[3].carrier
     /\ Len(log) = 2
     /\ log[1].keys = <<10, 11>> /\ log[2].keys = <<12>>
     /\ \A n \in 1..4 : cs[n].st = "ok"

\* the result a loader owes key k of a batch fetched against storage state db
Owed(nm, db, k, v) ==
  IF IsSingle(nm) THEN v = StoredRow(db, k)
  ELSE /\ v.t = "list"
       /\ ToSet(v.items) = ChildrenOf(nm, k)
       /\ NoDup(v.items)

\* C18: every batch a loader resolved holds a result list as long as its key
\* list, with the result owed to key i at position i, whatever order the query
\* returned its rows in; no batch ever failed for a length mismatch, and no
\* load of a batch that did would hold a value.
C18_LengthAndPosition ==
  \A g \in RegIds, nm \in LoaderNames :
    LET bs == batches[g][LoaderOf(nm)]
        cs == calls[g][nm]
    IN \A i \in DOMAIN bs :
         /\ bs[i].cause # "TypeError"
         /\ bs[i].st = "ok" =>
              /\ Len(bs[i].vals) = Len(bs[i].keys)
              /\ \A j \in DOMAIN bs[i].keys : Owed(nm, bs[i].snap, bs[i].keys[j], bs[i].vals[j])
         /\ bs[i].cause = "TypeError" =>
              \A n \in DOMAIN cs : cs[n].src = i => cs[n].st # "ok"

C18_Witness ==
  \E i \in DOMAIN batches[1]["productLoader"] :
    LET b == batches[1]["productLoader"][i]
    IN /\ b.st = "ok"
       /\ b.keys = <<12, 11, 10>>
       /\ b.vals = <<RowV([id |-> 12, ver |-> 1]), NullV, RowV([id |-> 10, ver |-> 1])>>
       /\ \E rows \in FindProducts(b.snap, b.keys) : Len(rows) = 2 /\ rows[1].id = 10

\* C19: the batch function is never invoked with an empty key list, so no
\* storage query has an empty key set; a dispatched batch without keys is
\* released without a fetch and with no results, and the loads it carries,
\* all of them cache hits, take the values their keys were fetched with.
C19_NoEmptyFetch ==
  \A g \in RegIds, nm \in LoaderNames :
    LET bs == batches[g][LoaderOf(nm)]
        cs == calls[g][nm]
    IN /\ \A i \in DOMAIN bs :
            /\ Fetched(bs[i]) => bs[i].keys # <<>>
            /\ (bs[i].keys = <<>> /\ bs[i].st # "open") =>
                 (bs[i].st = "empty" /\ bs[i].vals = <<>>)
       /\ \A n \in DOMAIN cs :
            bs[cs[n].carrier].st = "empty" =>
              /\ cs[n].hit
              /\ bs[cs[n].src].st = "ok" =>
                   (cs[n].st = "ok" /\ Owed(nm, bs[cs[n].src].snap, cs[n].key, cs[n].val))

C19_Witness ==
  LET cs == calls[1]["productVariantsLoader"]
      bs == batches[1]["productVariantsLoader"]
  IN /\ Len(cs) = 2 /\ Len(bs) = 2
     /\ bs[1].st = "ok" /\ bs[1].keys = <<10>>
     /\ bs[2].st = "empty" /\ bs[2].keys = <<>>
     /\ cs[2].carrier = 2 /\ cs[2].st = "ok" /\ Len(cs[2].val.items) = 2
     /\ Len(FetchLog(1, "productVariantsLoader")) = 1

\* the parents of the rows of a bulk result, in result order
ParentsOf(rows) == [ n \in DOMAIN rows |-> rows[n].productId ]

Ids(v) == [ n \in DOMAIN v.items |-> v.items[n].id ]

\* C20: a list the reviews loader resolved holds published reviews only; and
\* within every resolved list the rows keep the order of the loader's query:
\* reviews newest first, variants by ascending sort order, addresses with the
\* default address first.
C20_PublishedAndOrdered ==
  \A g \in RegIds, nm \in LoaderNames :
    ~IsSingle(nm) =>
      \A n \in DOMAIN calls[g][nm] :
        LET c == calls[g][nm][n]
            it == c.val.items
        IN c.st = "ok" =>
             CASE nm = "productReviewsLoader" ->
                    /\ \A i \in DOMAIN it : it[i].isPublished
                    /\ \A i, j \in DOMAIN it : i < j => it[i].createdAt >= it[j].createdAt
               [] nm = "productVariantsLoader" ->
                    \A i, j \in DOMAIN it : i < j => it[i].sortOrder <= it[j].sortOrder
               [] nm = "userAddressesLoader" ->
                    \A i, j \in DOMAIN it : i < j => (it[j].isDefault => it[i].isDefault)

C20_Witness ==
  LET rs == calls[1]["productReviewsLoader"]
      as == calls[1]["userAddressesLoader"]
      b == batches[1]["productReviewsLoader"][1]
  IN /\ Len(rs) = 2 /\ Len(as) = 1
     /\ b.keys = <<10, 11>> /\ b.st = "ok"
     /\ \A rows \in FindReviews(b.keys) : ParentsOf(rows) = <<10, 11, 11, 10>>
     /\ rs[1].st = "ok" /\ Ids(rs[1].val) = <<5, 1>>
     /\ rs[2].st = "ok" /\ Ids(rs[2].val) = <<4, 3>>
     /\ as[1].key = 10 /\ as[1].st = "ok" /\ Ids(as[1].val) = <<3, 1>>

\* the category rows a list request's other options admit
OtherwiseAdmitted(l) ==
  { row \in CategoryRows : l.query.isVisible.set => row.isVisible = l.query.isVisible.v }

\* the rows of S the page of the request shows, S being listed by sortOrder
PageOf(S, l) ==
  LET all == BySortOrder(S)
  IN SubSeq(all, Min(l.skip, Len(all)) + 1, Min(l.skip + l.take, Len(all)))

\* C21: an answered category list holds, of the categories its other options
\* admit, those whose parent is the given key when a key is given, those
\* without a parent when the key is given as null, and all of them when the
\* key is left out.
C21_ParentFilter ==
  (listing.endpoint = "categories" /\ listing.code = 200) =>
    LET p == listing.query.parentId
        base == OtherwiseAdmitted(listing)
        want == IF p = Absent THEN base
                ELSE IF IsNull(p) THEN { row \in base : IsNull(row.parentId) }
                ELSE { row \in base : ~IsNull(row.parentId) /\ row.parentId.v = p.v }
    IN listing.data = PageOf(want, listing)

C21_Witness ==
  /\ listing.endpoint = "categories"
  /\ listing.query.parentId = JNull
  /\ listing.query.isVisible = Absent
  /\ listing.code = 200
  /\ [n \in DOMAIN listing.data |-> listing.data[n].id] = <<"c2", "c1">>

\* C22: at most one theme is active.
C22_OneActiveTheme == Cardinality(ActiveThemes(store)) <= 1

\* C23: when the only call made is a setActiveTheme that failed, the themes
\* that were active when it was called are the active themes.
C23_FailedSetActiveKeepsActive ==
  (Len(flights) = 1 /\ flights[1].op = "setActiveTheme"
     /\ flights[1].pc = "done" /\ flights[1].out # "ok")
    => ActiveThemes(store) = flights[1].before

\* C24: no deleteTheme call has deleted a theme that was active when it was
\* deleted.
C24_NeverDeletesActive ==
  \A i \in DOMAIN flights : flights[i].op = "deleteTheme" => ~flights[i].hot

\* C29: every create, update and delete mutation on products, categories,
\* collections, variants and themes that was called without an authenticated
\* user has failed with Unauthorized and has written nothing; and while no
\* other call was made, storage is as it was.
C29_UnauthorizedWritesNothing ==
  /\ \A i \in DOMAIN flights :
       flights[i].user = NoUser =>
         /\ flights[i].pc = "done"
         /\ flights[i].out = "Unauthorized"
         /\ flights[i].wrote = 0
  /\ (\A i \in DOMAIN flights : flights[i].user = NoUser) => store = InitDb

C29_Witness ==
  /\ Len(flights) = 2
  /\ flights[1].user = NoUser /\ flights[1].op = "delete" /\ flights[1].entity = "product"
  /\ flights[1].id = 1 /\ flights[1].out = "Unauthorized"
  /\ flights[2].user = NoUser /\ flights[2].op = "setActiveTheme" /\ flights[2].id = 2
  /\ flights[2].out = "Unauthorized"
  /\ store = InitDb

\* C25: storage holds at most one review for each user and product, every
\* review has a rating from 1 to 5 and is unpublished and unverified, and a
\* createReview call that was rejected has created nothing.
C25_OneReviewPerUserAndProduct ==
  /\ \A r1, r2 \in store.review :
       (r1.userId = r2.userId /\ r1.productId = r2.productId) => r1 = r2
  /\ \A r \in store.review :
       r.rating >= 1 /\ r.rating <= 5 /\ ~r.isPublished /\ ~r.isVerified
  /\ \A i \in DOMAIN flights :
       (flights[i].pc = "done" /\ flights[i].out # "ok") => flights[i].wrote = 0

\* C26: every cart item in storage has quantity at least 1.
C26_QuantityAtLeastOne == \A r \in store.item : r.quantity >= 1

\* the amounts the addToCart calls 1..k that returned added to item r
RECURSIVE AddedTo(_, _)
AddedTo(r, k) ==
  IF k = 0 THEN 0
  ELSE AddedTo(r, k - 1) +
       (IF /\ flights[k].op = "addToCart" /\ flights[k].out = "ok"
           /\ flights[k].cart = r.cartId /\ flights[k].product = r.productId
           /\ flights[k].variant = r.variantId
        THEN flights[k].n ELSE 0)

\* what the item with r's key held before any call was made
InitialQuantity(r) ==
  LET same == { x \in InitDb.item : x.cartId = r.cartId /\ x.productId = r.productId
                                      /\ x.variantId = r.variantId }
  IN IF same = {} THEN 0 ELSE (CHOOSE x \in same : TRUE).quantity

\* C27: once every call has finished, no two carts belong to the same user or
\* to the same guest session and no two items of a cart have the same product
\* and variant; and when only addToCart calls were made, every item holds what
\* it held at first plus the amounts of the calls that returned for it.
C27_OneItemSummedQuantity ==
  (\A i \in DOMAIN flights : flights[i].pc = "done") =>
    /\ \A c1, c2 \in store.cart :
         (c1 # c2) => ~(\/ (c1.userId # NoUser /\ c1.userId = c2.userId)
                        \/ (c1.sessionId # "" /\ c1.sessionId = c2.sessionId))
    /\ \A r1, r2 \in store.item :
         (r1.cartId = r2.cartId /\ r1.productId = r2.productId
            /\ r1.variantId = r2.variantId) => r1 = r2
    /\ (\A i \in DOMAIN flights : flights[i].op = "addToCart") =>
         \A r \in store.item : r.quantity = InitialQuantity(r) + AddedTo(r, Len(flights))

\* C28: an updateCartItem or removeFromCart call that named an item of a
\* user's cart, made by anyone but that user, does not succeed and writes
\* nothing.
C28_OwnCartOnly ==
  \A i \in DOMAIN flights :
    LET f == flights[i]
    IN (f.op \in {"updateCartItem", "removeFromCart"} /\ f.seen # NoRow
          /\ OwnerOf(f.seen) # NoUser /\ OwnerOf(f.seen) # f.user)
         => (f.out # "ok" /\ f.wrote = 0)

\* the exit code tells how the shutdown went
ExitCodeTellsOutcome ==
  /\ proc.exited => proc.signals # <<>>
  /\ (proc.exited /\ proc.code = 0) =>
       (proc.server = "closed" /\ proc.client = "disconnected")
  /\ (proc.exited /\ proc.code = 1) => (proc.failed \/ proc.fired)
  /\ (proc.failed \/ proc.fired) => (proc.exited /\ proc.code = 1)

\* C30: after a signal the process eventually exits; it exits with code 0
\* only once the HTTP server has closed and the database client has
\* disconnected, and with code 1 exactly when a disconnect failed or the
\* 10 second timer fired, also with a second signal during the shutdown.
C30_ExitsAfterSignal ==
  /\ []ExitCodeTellsOutcome
  /\ (proc.signals # <<>>) ~> proc.exited

\* a clean exit after two signals
C30_Witness ==
  /\ Len(proc.signals) = 2
  /\ proc.exited /\ proc.code = 0
  /\ proc.server = "closed" /\ proc.client = "disconnected"

\* two addToCart calls for the item already in the cart, both returned, and
\* the item holds less than what it held plus both amounts
C27_LostUpdate ==
  /\ Len(flights) = 2
  /\ \A i \in {1, 2} : /\ flights[i].op = "addToCart" /\ flights[i].out = "ok"
                       /\ flights[i].variant = Is(1) /\ flights[i].n = 1
  /\ \E r \in store.item : r.id = 1 /\ r.quantity = 2

====
